---------------------------- MODULE Spec2Model ----------------------------
(***************************************************************************)
(* Model of the strict four-year extraction pipeline of                    *)
(* src/src/s&p_variables_upload.py: the alias resolver (_get_row_value),   *)
(* the fiscal-year column mapper (_columns_by_year), the annual extractor  *)
(* (extract_annuals) and the point-in-time enricher with its completeness  *)
(* gate (scrape_company_row).                                              *)
(*                                                                         *)
(* Representation.                                                         *)
(*   Optional[float]  None is <<>>, a float is the reduced fraction        *)
(*                    <<n, d>> with d > 0 (exact: rounding is not          *)
(*                    modelled).  <<0, 0>> stands for an exception that    *)
(*                    left the function (Raised).                          *)
(*   str              a sequence of tokens [s, cap]: s is the lower-case   *)
(*                    text of a word (or " "), cap says the word is        *)
(*                    written with capitals.  lower() clears cap, strip()  *)
(*                    drops leading and trailing " " tokens.               *)
(*   DataFrame        [missing, index, columns, data]: index the row       *)
(*                    labels, columns the column labels, data[r][c] the    *)
(*                    cells; missing = TRUE is Python's None.              *)
(*   dict             a function; the empty dict is the empty function.    *)
(***************************************************************************)
EXTENDS Integers, Sequences, FiniteSets, TLC

VARIABLES
    pc,        \* position of the modelled call
    df,        \* _get_row_value / _columns_by_year: the table argument
    aliases,   \* _get_row_value: the alias list argument
    col_obj,   \* _get_row_value: the column argument
    val,       \* _get_row_value: the value returned
    year_map,  \* _columns_by_year: the dict returned
    inc,       \* stock.financials
    bs,        \* stock.balance_sheet
    cf,        \* stock.cashflow
    fast_info, \* stock.fast_info
    info,      \* stock.info
    pit,       \* scrape_company_row: the point-in-time locals
    inc_cols,  \* extract_annuals: _columns_by_year(inc)
    bs_cols,   \* extract_annuals: _columns_by_year(bs)
    cf_cols,   \* extract_annuals: _columns_by_year(cf)
    y_i,       \* extract_annuals: place of the loop in YEARS
    out,       \* extract_annuals: the dict being built
    loc,       \* extract_annuals: the locals of the last iteration
    annuals,   \* the value extract_annuals returned
    row,       \* the value scrape_company_row returned
    csv,       \* main: the Symbol column of SP500.csv
    yahoo,     \* main: what Yahoo serves for each ticker
    main,      \* main: the locals of the driver and the lines it printed
    sb,        \* main: the calls of upsert_row and the Supabase table
    dcf        \* snp500_dcf.py, scrape_company_dcf_data: data and its score

tool_vars == <<df, aliases, col_obj, val, year_map>>

world_vars == <<inc, bs, cf, fast_info, info>>

extract_vars == <<inc_cols, bs_cols, cf_cols, y_i, out, loc, annuals>>

main_vars == <<csv, yahoo, main, sb>>

vars == <<pc, tool_vars, world_vars, pit, extract_vars, row, main_vars, dcf>>

-----------------------------------------------------------------------------
(* Floats and None *)

None == <<>>

Raised == <<0, 0>>

Abs(n) == IF n < 0 THEN -n ELSE n

RECURSIVE Gcd(_, _)
Gcd(a, b) == IF b = 0 THEN a ELSE Gcd(b, a % b)

\* n / d as a reduced fraction with a positive denominator; d # 0
Frac(n, d) ==
    LET g == Gcd(Abs(n), Abs(d))
        s == IF d < 0 THEN -1 ELSE 1
    IN  << (s * n) \div g, (s * d) \div g >>

F(n) == <<n, 1>>

\* Python's truth value of an Optional[float]: None and 0.0 are falsy
Truthy(v) == v # None /\ v[1] # 0

\* float / float; Python raises ZeroDivisionError on a zero divisor
Div(a, b) == IF b[1] = 0 THEN Raised ELSE Frac(a[1] * b[2], a[2] * b[1])

\* float + float
Add(a, b) == Frac(a[1] * b[2] + b[1] * a[2], a[2] * b[2])

-----------------------------------------------------------------------------
(* Strings *)

W(s) == [s |-> s, cap |-> FALSE]

C(s) == [s |-> s, cap |-> TRUE]

SP == W(" ")

\* str.lower()
Lower(str) == [i \in 1..Len(str) |-> [str[i] EXCEPT !.cap = FALSE]]

RECURSIVE LStrip(_)
LStrip(str) ==
    IF str # <<>> /\ Head(str) = SP THEN LStrip(Tail(str)) ELSE str

RECURSIVE RStrip(_)
RStrip(str) ==
    IF str # <<>> /\ str[Len(str)] = SP
    THEN RStrip(SubSeq(str, 1, Len(str) - 1))
    ELSE str

\* str.strip()
Strip(str) == RStrip(LStrip(str))

-----------------------------------------------------------------------------
(* Tables *)

NoTable == [missing |-> TRUE, index |-> <<>>, columns |-> <<>>, data |-> <<>>]

Table(index, columns, data) ==
    [missing |-> FALSE, index |-> index, columns |-> columns, data |-> data]

\* DataFrame.empty: an axis of length 0
Empty(t) == Len(t.index) = 0 \/ Len(t.columns) = 0

\* cells
Num(n) == [kind |-> "num", v |-> n]

NaN == [kind |-> "nan", v |-> 0]

Txt == [kind |-> "str", v |-> 0]

\* column labels
Ts(y, m) == [kind |-> "ts", year |-> y, month |-> m]

Iso(y, m) == [kind |-> "iso", year |-> y, month |-> m]

Text(n) == [kind |-> "text", year |-> n, month |-> 0]

NaT == [kind |-> "nat", year |-> 0, month |-> 0]

NoCol == [kind |-> "None", year |-> 0, month |-> 0]

\* int(pd.to_datetime(c).year): <<y>>, or <<>> when it raises.  A Timestamp
\* and an ISO date string parse; other text raises in to_datetime, and a null
\* label gives NaT, whose year is nan, so that int() raises.
ParseYear(c) ==
    IF c.kind \in {"ts", "iso"} THEN <<c.year>> ELSE <<>>

-----------------------------------------------------------------------------
(* _index_map *)

EmptyDict == [k \in {} |-> None]

RECURSIVE IndexMapFirstWins(_, _)
\* a faulty variant of IndexMapUpTo: the first row of a normalised label stays
IndexMapFirstWins(t, n) ==
    IF n = 0 THEN EmptyDict
    ELSE IndexMapFirstWins(t, n - 1) @@ (Lower(Strip(t.index[n])) :> t.index[n])

\* the dict comprehension over the first n rows: a later row with the same
\* normalised label replaces the earlier one
RECURSIVE IndexMapUpTo(_, _)
IndexMapUpTo(t, n) ==
    IF n = 0 THEN EmptyDict
    ELSE (Lower(Strip(t.index[n])) :> t.index[n]) @@ IndexMapUpTo(t, n - 1)

IndexMap(t) ==
    IF t.missing \/ Empty(t) THEN EmptyDict ELSE IndexMapUpTo(t, Len(t.index))

-----------------------------------------------------------------------------
(* _get_row_value *)

\* df.loc[row, col]: KeyError when the column label is not in the table; a
\* scalar cell when both labels are unique; otherwise a Series or DataFrame
Loc(t, label, col) ==
    LET rs == {i \in 1..Len(t.index) : t.index[i] = label}
        cs == {j \in 1..Len(t.columns) : t.columns[j] = col}
    IN  IF rs = {} \/ cs = {} THEN [kind |-> "KeyError", v |-> 0]
        ELSE IF Cardinality(rs) = 1 /\ Cardinality(cs) = 1
        THEN t.data[CHOOSE i \in rs : TRUE][CHOOSE j \in cs : TRUE]
        ELSE [kind |-> "Series", v |-> 0]

\* lines 150-153 without the handler: the value, None, or Raised
CellValue(cell) ==
    CASE cell.kind = "KeyError" -> Raised   \* df.loc raises
      [] cell.kind = "Series"   -> Raised   \* truth value of pd.isna(Series)
      [] cell.kind = "nan"      -> None
      [] cell.kind = "str"      -> Raised   \* float("n/a")
      [] OTHER                  -> F(cell.v)

\* a faulty variant of TryCellValue: no handler, the exception leaves
TryCellValueNoHandler(cell) == CellValue(cell)

\* try: ... except Exception: return None
TryCellValue(cell) ==
    IF CellValue(cell) = Raised THEN None ELSE CellValue(cell)

RECURSIVE FirstMatch(_, _, _)
FirstMatch(idx, als, i) ==
    IF i > Len(als) THEN 0
    ELSE IF Lower(als[i]) \in DOMAIN idx THEN i
    ELSE FirstMatch(idx, als, i + 1)

GetRowValue(t, als, col) ==
    IF t.missing \/ Empty(t) THEN None
    ELSE LET idx == IndexMap(t)
             i   == FirstMatch(idx, als, 1)
         IN  IF i = 0 THEN None
             ELSE TryCellValue(Loc(t, idx[Lower(als[i])], col))

-----------------------------------------------------------------------------
(* _columns_by_year *)

RECURSIVE ColumnsUpToFirstWins(_, _)
\* a faulty variant of ColumnsUpTo: the first column of a year stays
ColumnsUpToFirstWins(t, n) ==
    IF n = 0 THEN EmptyDict
    ELSE LET prev == ColumnsUpToFirstWins(t, n - 1)
             y    == ParseYear(t.columns[n])
         IN  IF y = <<>> THEN prev ELSE prev @@ (y[1] :> t.columns[n])

\* the loop over the first n columns: out[y] = c replaces an earlier column
\* of the same year, a column that does not parse is skipped
RECURSIVE ColumnsUpTo(_, _)
ColumnsUpTo(t, n) ==
    IF n = 0 THEN EmptyDict
    ELSE LET prev == ColumnsUpTo(t, n - 1)
             y    == ParseYear(t.columns[n])
         IN  IF y = <<>> THEN prev ELSE (y[1] :> t.columns[n]) @@ prev

ColumnsByYear(t) ==
    IF t.missing \/ Empty(t) THEN EmptyDict ELSE ColumnsUpTo(t, Len(t.columns))

\* dict.get(y)
Get(d, k) == IF k \in DOMAIN d THEN d[k] ELSE NoCol

-----------------------------------------------------------------------------
(* Config, lines 33-62 *)

YEARS == <<2024, 2023, 2022, 2021>>

REV_ALIASES ==
    << <<W("total"), SP, W("revenue")>>, <<W("revenue")>>, <<W("totalrevenue")>> >>

OI_ALIASES ==
    << <<W("operating"), SP, W("income")>>, <<W("operatingincome")>>, <<W("ebit")>> >>

NI_ALIASES == << <<W("net"), SP, W("income")>>, <<W("netincome")>> >>

OCF_ALIASES ==
    << <<W("operating"), SP, W("cash"), SP, W("flow")>>,
       <<W("total"), SP, W("cash"), SP, W("from"), SP, W("operating"), SP,
         W("activities")>>,
       <<W("totalcashfromoperatingactivities")>> >>

CAPEX_ALIASES ==
    << <<W("capital"), SP, W("expenditure")>>,
       <<W("capitalexpenditures")>>,
       <<W("investments"), SP, W("in"), SP, W("property"), SP, W("plant"), SP,
         W("and"), SP, W("equipment")>> >>

FCF_ALIASES == << <<W("free"), SP, W("cash"), SP, W("flow")>>, <<W("freecashflow")>> >>

DEBT_ALIASES ==
    << <<W("total"), SP, W("debt")>>,
       <<W("long"), SP, W("term"), SP, W("debt")>>,
       <<W("longtermdebt")>>,
       <<W("short"), SP, W("long"), SP, W("term"), SP, W("debt")>> >>

CASH_ALIASES ==
    << <<W("cash"), SP, W("and"), SP, W("cash"), SP, W("equivalents")>>,
       <<W("cashandcashequivalents")>> >>

EQUITY_ALIASES ==
    << <<W("stockholders"), SP, W("equity")>>,
       <<W("total"), SP, W("stockholder"), SP, W("equity")>>,
       <<W("totalstockholdersequity")>> >>

GROSS_PROFIT_ALIASES == << <<W("gross"), SP, W("profit")>>, <<W("grossprofit")>> >>

CUR_ASSETS_ALIASES ==
    << <<W("total"), SP, W("current"), SP, W("assets")>>,
       <<W("current"), SP, W("assets")>>,
       <<W("totalcurrentassets")>> >>

CUR_LIABS_ALIASES ==
    << <<W("total"), SP, W("current"), SP, W("liabilities")>>,
       <<W("current"), SP, W("liabilities")>>,
       <<W("totalcurrentliabilities")>> >>

-----------------------------------------------------------------------------
(* extract_annuals, the body of the loop *)

\* a faulty variant of NoneDict: `return {}` where the code returns None
EmptyDictReturned == [isNone |-> FALSE, d |-> [k \in {} |-> <<>>]]

\* an Optional[dict]
NoneDict == [isNone |-> TRUE, d |-> EmptyDict]

SomeDict(d) == [isNone |-> FALSE, d |-> d]

\* col_i is None or col_b is None or col_c is None
MissingStatement(col_i, col_b, col_c) ==
    col_i = NoCol \/ col_b = NoCol \/ col_c = NoCol

\* a faulty variant of DeriveFcf: fcf = ocf - capx
DeriveFcfMinus(fcf, ocf, capx) ==
    IF fcf = None /\ (ocf # None /\ capx # None)
    THEN Add(ocf, <<-capx[1], capx[2]>>)
    ELSE fcf

\* if fcf is None and (ocf is not None and capx is not None): fcf = ocf + capx
DeriveFcf(fcf, ocf, capx) ==
    IF fcf = None /\ (ocf # None /\ capx # None) THEN Add(ocf, capx) ELSE fcf

\* the dict base of lines 219-232, keyed by the field (the year is added
\* when out is updated)
BaseOf(col_i, col_b, col_c) ==
    LET ocf  == GetRowValue(cf, OCF_ALIASES, col_c)
        capx == GetRowValue(cf, CAPEX_ALIASES, col_c)
        fcf  == GetRowValue(cf, FCF_ALIASES, col_c)
    IN  [revenue              |-> GetRowValue(inc, REV_ALIASES, col_i),
         operating_income     |-> GetRowValue(inc, OI_ALIASES, col_i),
         net_income           |-> GetRowValue(inc, NI_ALIASES, col_i),
         operating_cash_flow  |-> ocf,
         capital_expenditure  |-> capx,
         free_cash_flow       |-> DeriveFcf(fcf, ocf, capx),
         total_debt           |-> GetRowValue(bs, DEBT_ALIASES, col_b),
         cash_and_equivalents |-> GetRowValue(bs, CASH_ALIASES, col_b),
         total_equity         |-> GetRowValue(bs, EQUITY_ALIASES, col_b),
         gross_profit         |-> GetRowValue(inc, GROSS_PROFIT_ALIASES, col_i),
         current_assets       |-> GetRowValue(bs, CUR_ASSETS_ALIASES, col_b),
         current_liabilities  |-> GetRowValue(bs, CUR_LIABS_ALIASES, col_b)]

\* a faulty variant of Ratio: no guard of the divisor
RatioUnguarded(n, d) == Div(n, d)

\* (n / d) if d else None
Ratio(n, d) == IF Truthy(d) THEN Div(n, d) ELSE None

\* (ca / cl) if (ca and cl) else None
CurrentRatio(ca, cl) == IF Truthy(ca) /\ Truthy(cl) THEN Div(ca, cl) ELSE None

\* the dict derived of lines 246-254
DerivedOf(b) ==
    [gross_margin     |-> Ratio(b.gross_profit, b.revenue),
     operating_margin |-> Ratio(b.operating_income, b.revenue),
     net_margin       |-> Ratio(b.net_income, b.revenue),
     fcf_margin       |-> Ratio(b.free_cash_flow, b.revenue),
     ofc_margin       |-> Ratio(b.operating_cash_flow, b.revenue),
     debt_to_equity   |-> Ratio(b.total_debt, b.total_equity),
     current_ratio    |-> CurrentRatio(b.current_assets, b.current_liabilities)]

\* any(v is None for v in d.values())
AnyNone(d) == \E k \in DOMAIN d : d[k] = None

\* d with its keys f turned into the keys f_y
Keyed(d, y) == [k \in {<<f, y>> : f \in DOMAIN d} |-> d[k[1]]]

\* out.update(d)
Update(o, d) == d @@ o

\* a faulty variant of line 196: return out
ReturnSoFar(o) == SomeDict(o)

\* line 196: return None  # missing a statement for that year
RejectMissingStatement(o) == NoneDict

\* a faulty variant of line 234: return out
ReturnPartial(o) == SomeDict(o)

\* line 234: return None
RejectMissingBase(o) == NoneDict

\* line 256: return None
RejectMissingDerived(o) == NoneDict

-----------------------------------------------------------------------------
(* extract_annuals *)

NoLoc ==
    [y |-> 0, col_i |-> NoCol, col_b |-> NoCol, col_c |-> NoCol,
     base |-> EmptyDict, derived |-> EmptyDict, at |-> "none"]

\* lines 181-189
ExtractBegin ==
    /\ pc = "extract_annuals"
    /\ inc_cols' = ColumnsByYear(inc)
    /\ bs_cols' = ColumnsByYear(bs)
    /\ cf_cols' = ColumnsByYear(cf)
    /\ out' = EmptyDict
    /\ y_i' = 1
    /\ pc' = "for_y"
    /\ UNCHANGED <<dcf, main_vars, tool_vars, world_vars, pit, loc, annuals, row>>

\* the iteration leaves extract_annuals with `return None`
ReturnNone(l, v) ==
    /\ loc' = l
    /\ annuals' = v
    /\ pc' = "annuals_returned"
    /\ UNCHANGED <<out, y_i>>

\* lines 191-259, one iteration of `for y in YEARS`
ExtractYear ==
    /\ pc = "for_y"
    /\ y_i <= Len(YEARS)
    /\ \E y \in {YEARS[y_i]} :
       \E col_i \in {Get(inc_cols, y)}, col_b \in {Get(bs_cols, y)},
          col_c \in {Get(cf_cols, y)} :
       LET l == [y |-> y, col_i |-> col_i, col_b |-> col_b, col_c |-> col_c,
                 base |-> EmptyDict, derived |-> EmptyDict, at |-> "none"]
       IN  IF MissingStatement(col_i, col_b, col_c)
           THEN ReturnNone([l EXCEPT !.at = "missing_statement"],
                           RejectMissingStatement(out))
           ELSE \E base \in {BaseOf(col_i, col_b, col_c)} :
                IF AnyNone(base)
                THEN ReturnNone([l EXCEPT !.base = base, !.at = "missing_base"],
                                RejectMissingBase(out))
                ELSE \E derived \in {DerivedOf(base)} :
                     IF AnyNone(derived)
                     THEN ReturnNone([l EXCEPT !.base = base, !.derived = derived,
                                               !.at = "missing_derived"],
                                     RejectMissingDerived(out))
                     ELSE /\ loc' = [l EXCEPT !.base = base, !.derived = derived,
                                              !.at = "updated"]
                          /\ out' = Update(Update(out, Keyed(base, y)),
                                           Keyed(derived, y))
                          /\ y_i' = y_i + 1
                          /\ UNCHANGED <<annuals, pc>>
    /\ UNCHANGED <<dcf, main_vars, tool_vars, world_vars, pit, inc_cols, bs_cols, cf_cols, row>>

\* line 261
ExtractReturn ==
    /\ pc = "for_y"
    /\ y_i > Len(YEARS)
    /\ annuals' = SomeDict(out)
    /\ pc' = "annuals_returned"
    /\ UNCHANGED <<dcf, main_vars, tool_vars, world_vars, pit, inc_cols, bs_cols, cf_cols, y_i,
                   out, loc, row>>

-----------------------------------------------------------------------------
(* scrape_company_row *)

\* Python's `a or b`
Or(a, b) == IF Truthy(a) THEN a ELSE b

\* lines 267-268
NoPit ==
    [current_price |-> None, shares_out |-> None, market_cap |-> None,
     beta |-> None, tax_rate |-> None, trailing_pe |-> None, forward_pe |-> None]

\* lines 270-276; fast_info.raises_at = k > 0: the k-th lookup of the try
\* body raises, the assignments before it stay
ReadFastInfo ==
    /\ pc = "fast_info"
    /\ LET fi == fast_info
           r  == fi.raises_at
           p1 == IF r = 1 THEN pit
                 ELSE [pit EXCEPT !.current_price = Or(fi.last_price, fi.lastPrice)]
           p2 == IF r \in 1..2 THEN p1 ELSE [p1 EXCEPT !.shares_out = fi.shares]
           p3 == IF r \in 1..3 THEN p2 ELSE [p2 EXCEPT !.market_cap = fi.market_cap]
       IN  pit' = p3
    /\ pc' = "info"
    /\ UNCHANGED <<dcf, main_vars, tool_vars, world_vars, extract_vars, row>>

\* lines 278-288; info.raises: stock.info raises
ReadInfo ==
    /\ pc = "info"
    /\ pit' = IF info.raises THEN pit
              ELSE [current_price |->
                        Or(Or(pit.current_price, info.currentPrice),
                           info.regularMarketPrice),
                    shares_out  |-> Or(pit.shares_out, info.sharesOutstanding),
                    market_cap  |-> Or(pit.market_cap, info.marketCap),
                    beta        |-> info.beta,
                    tax_rate    |-> info.effectiveTaxRate,
                    trailing_pe |-> info.trailingPE,
                    forward_pe  |-> info.forwardPE]
    /\ pc' = "extract_annuals"
    /\ UNCHANGED <<dcf, main_vars, tool_vars, world_vars, extract_vars, row>>

\* dict.get(k) of a dict of Optional[float]
GetVal(d, k) == IF k \in DOMAIN d THEN d[k] ELSE None

\* a faulty variant of SharesMissing: if shares_out is None
SharesMissingOnlyNone(shares_out) == shares_out = None

\* not shares_out or shares_out == 0
SharesMissing(shares_out) == ~Truthy(shares_out) \/ shares_out[1] = 0

\* ni / shares_out
Eps(ni, shares_out) == Div(ni, shares_out)

\* lines 297-301 from the i-th year on: [ok, d]; ok = FALSE is `return None`
RECURSIVE EpsLoop(_, _, _)
EpsLoop(d, shares_out, i) ==
    IF i > Len(YEARS) THEN [ok |-> TRUE, d |-> d]
    ELSE LET ni == GetVal(d, <<"net_income", YEARS[i]>>)
         IN  IF ni = None THEN [ok |-> FALSE, d |-> d]
             ELSE EpsLoop((<<"eps", YEARS[i]>> :> Eps(ni, shares_out)) @@ d,
                          shares_out, i + 1)

\* annuals.get("operating_cash_flow_2024")
OcfLatest(d) == GetVal(d, <<"operating_cash_flow", 2024>>)

\* lines 306-309
PPcf(current_price, shares_out, ocf_2024) ==
    IF Truthy(current_price) /\ Truthy(shares_out) /\ Truthy(ocf_2024)
    THEN LET ocf_per_share == Div(ocf_2024, shares_out)
         IN  IF Truthy(ocf_per_share) THEN Div(current_price, ocf_per_share)
             ELSE None
    ELSE None

\* the fields of required_keys, lines 331-337
RequiredFields ==
    {"revenue", "operating_income", "net_income",
     "operating_cash_flow", "capital_expenditure", "free_cash_flow",
     "total_debt", "cash_and_equivalents", "total_equity",
     "gross_profit", "gross_margin", "operating_margin", "net_margin",
     "fcf_margin", "ofc_margin", "debt_to_equity",
     "current_assets", "current_liabilities", "current_ratio",
     "eps"}

\* a faulty variant of RequiredKeys: p_pcf is required too
RequiredKeysWithPPcf ==
    {<<f, YEARS[i]>> : f \in RequiredFields, i \in 1..Len(YEARS)}
        \cup {<<"p_pcf", 0>>}

\* lines 328-338
RequiredKeys == {<<f, YEARS[i]>> : f \in RequiredFields, i \in 1..Len(YEARS)}

\* the argument ticker: the record main is at, "ticker" in a call without main
TickerArg == IF main.i = 0 THEN <<"ticker">> ELSE main.universe[main.i]

\* lines 311-325: the point-in-time keys (year 0), then **annuals
RowOf(p, p_pcf, d) ==
    d @@ [k \in {<<f, 0>> : f \in {"ticker", "company_name", "sector",
                                   "last_updated", "current_price",
                                   "shares_outstanding", "market_cap", "beta",
                                   "tax_rate", "pe_trailing", "pe_forward",
                                   "p_pcf"}} |->
            CASE k[1] = "ticker"             -> TickerArg
              [] k[1] = "company_name"       -> <<"company_name">>
              [] k[1] = "sector"             -> <<"sector">>
              [] k[1] = "last_updated"       -> <<"utcnow">>
              [] k[1] = "current_price"      -> p.current_price
              [] k[1] = "shares_outstanding" -> p.shares_out
              [] k[1] = "market_cap"         -> p.market_cap
              [] k[1] = "beta"               -> p.beta
              [] k[1] = "tax_rate"           -> p.tax_rate
              [] k[1] = "pe_trailing"        -> p.trailing_pe
              [] k[1] = "pe_forward"         -> p.forward_pe
              [] k[1] = "p_pcf"              -> p_pcf]

\* lines 290-342
Enrich ==
    /\ pc = "annuals_returned"
    /\ IF annuals.isNone
       THEN row' = NoneDict /\ UNCHANGED annuals
       ELSE IF SharesMissing(pit.shares_out)
       THEN row' = NoneDict /\ UNCHANGED annuals
       ELSE LET e == EpsLoop(annuals.d, pit.shares_out, 1)
                r == RowOf(pit, PPcf(pit.current_price, pit.shares_out,
                                     OcfLatest(e.d)), e.d)
            IN  /\ annuals' = SomeDict(e.d)
                /\ row' = IF ~e.ok THEN NoneDict
                          ELSE IF \E k \in RequiredKeys :
                                     GetVal(r, k) = None
                          THEN NoneDict
                          ELSE SomeDict(r)
    /\ pc' = "done"
    /\ UNCHANGED <<dcf, main_vars, tool_vars, world_vars, pit, inc_cols, bs_cols, cf_cols, y_i,
                   out, loc>>

-----------------------------------------------------------------------------
(* Bounds of the inputs *)

MaxRows == 3

MaxAliases == 2

MaxCols == 3

MaxDefects == 1

MaxCsvRows == 2

MaxListLen == 3

-----------------------------------------------------------------------------
(* The statements Yahoo serves for one ticker *)

STATEMENTS == {"inc", "bs", "cf"}

\* the rows of each statement, in the table's order
FieldsOf(st) ==
    CASE st = "inc" -> <<"revenue", "gross_profit", "operating_income", "net_income">>
      [] st = "cf"  -> <<"operating_cash_flow", "capital_expenditure", "free_cash_flow">>
      [] st = "bs"  -> <<"total_debt", "cash_and_equivalents", "total_equity",
                         "current_assets", "current_liabilities">>

AllFields == UNION {{FieldsOf(st)[i] : i \in 1..Len(FieldsOf(st))} : st \in STATEMENTS}

\* the row labels Yahoo uses
RowLabel(f) ==
    CASE f = "revenue"              -> <<C("total"), SP, C("revenue")>>
      [] f = "gross_profit"         -> <<C("gross"), SP, C("profit")>>
      [] f = "operating_income"     -> <<C("operating"), SP, C("income")>>
      [] f = "net_income"           -> <<C("net"), SP, C("income")>>
      [] f = "operating_cash_flow"  -> <<C("operating"), SP, C("cash"), SP, C("flow")>>
      [] f = "capital_expenditure"  -> <<C("capital"), SP, C("expenditure")>>
      [] f = "free_cash_flow"       -> <<C("free"), SP, C("cash"), SP, C("flow")>>
      [] f = "total_debt"           -> <<C("total"), SP, C("debt")>>
      [] f = "cash_and_equivalents" ->
             <<C("cash"), SP, C("and"), SP, C("cash"), SP, C("equivalents")>>
      [] f = "total_equity"         -> <<C("stockholders"), SP, C("equity")>>
      [] f = "current_assets"       -> <<C("current"), SP, C("assets")>>
      [] f = "current_liabilities"  -> <<C("current"), SP, C("liabilities")>>

\* the figures of a complete statement: those of 2024, 10 more per year back
Figure(f, y) ==
    (2024 - y) * 10 +
    CASE f = "revenue"              -> 2000
      [] f = "gross_profit"         -> 800
      [] f = "operating_income"     -> 600
      [] f = "net_income"           -> 500
      [] f = "operating_cash_flow"  -> 100
      [] f = "capital_expenditure"  -> -20
      [] f = "free_cash_flow"       -> 90
      [] f = "total_debt"           -> 300
      [] f = "cash_and_equivalents" -> 150
      [] f = "total_equity"         -> 400
      [] f = "current_assets"       -> 700
      [] f = "current_liabilities"  -> 350

\* what may be wrong with the statements: <<kind, statement or field, year>>
\*   nan, zero   the cell of a field in the column of a year end is NaN, 0
\*   norow       the statement has no row for a field
\*   nocol       the statement has no column for a year
\*   dupcol      the statement ends with a second column of the year, of a
\*               fiscal year end in June, its figures 1 higher
\*   ttm         the statement starts with a column "TTM"
\*   missing     Yahoo serves no statement (None)
Defects ==
    ({"nan", "zero"} \X AllFields \X {YEARS[i] : i \in 1..Len(YEARS)})
    \cup ({"norow"} \X AllFields \X {0})
    \cup ({"nocol"} \X STATEMENTS \X {YEARS[i] : i \in 1..Len(YEARS)})
    \cup ({"dupcol"} \X STATEMENTS \X {2024})
    \cup ({"ttm", "missing"} \X STATEMENTS \X {0})

RECURSIVE DefectSets(_)
DefectSets(n) ==
    IF n = 0 THEN {{}}
    ELSE DefectSets(n - 1) \cup {ds \cup {d} : ds \in DefectSets(n - 1), d \in Defects}

ColumnsWith(st, ds) ==
    LET Present(y) == <<"nocol", st, y>> \notin ds
    IN  (IF <<"ttm", st, 0>> \in ds THEN <<Text(0)>> ELSE <<>>)
        \o [i \in 1..Len(SelectSeq(YEARS, Present)) |-> Ts(SelectSeq(YEARS, Present)[i], 12)]
        \o (IF <<"dupcol", st, 2024>> \in ds THEN <<Ts(2024, 6)>> ELSE <<>>)

CellWith(f, c, ds) ==
    IF ParseYear(c) = <<>> THEN NaN
    ELSE IF c.month = 6 THEN Num(Figure(f, c.year) + 1)
    ELSE IF <<"nan", f, c.year>> \in ds THEN NaN
    ELSE IF <<"zero", f, c.year>> \in ds THEN Num(0)
    ELSE Num(Figure(f, c.year))

\* the statement st with the defects ds
StatementWith(st, ds) ==
    LET Present(f) == <<"norow", f, 0>> \notin ds
        fields == SelectSeq(FieldsOf(st), Present)
        columns == ColumnsWith(st, ds)
    IN  IF <<"missing", st, 0>> \in ds THEN NoTable ELSE
        Table([r \in 1..Len(fields) |-> RowLabel(fields[r])],
              columns,
              [r \in 1..Len(fields) |->
                  [c \in 1..Len(columns) |-> CellWith(fields[r], columns[c], ds)]])

-----------------------------------------------------------------------------
(* The quote data Yahoo serves for one ticker *)

FullFastInfo ==
    [raises_at |-> 0, last_price |-> F(50), lastPrice |-> None,
     shares |-> F(100), market_cap |-> F(5000)]

FullInfo ==
    [raises |-> FALSE, currentPrice |-> F(50), regularMarketPrice |-> None,
     sharesOutstanding |-> F(100), marketCap |-> F(5000), beta |-> <<6, 5>>,
     effectiveTaxRate |-> <<21, 100>>, trailingPE |-> F(25), forwardPE |-> F(20)]

\* the price keys of fast_info: neither, last_price, or lastPrice alone
FastPrices == {<<None, None>>, <<F(50), None>>, <<None, F(40)>>}

\* fast_info, with the lookup that raises (0: none); the keys read after it
\* are left at None, and the market cap comes with the price
FastInfos ==
    { [raises_at |-> r, last_price |-> IF r = 1 THEN None ELSE p[1],
       lastPrice |-> IF r = 1 THEN None ELSE p[2],
       shares |-> IF r \in 1..2 THEN None ELSE sh,
       market_cap |-> IF r \in 1..3 \/ p[1] = None THEN None ELSE F(5000)] :
        r \in 0..3, p \in FastPrices, sh \in {None, F(0), F(100)} }

\* the informational keys of info that are absent: none, one, or all
AbsentInfo ==
    {{}, {"beta"}, {"effectiveTaxRate"}, {"trailingPE"}, {"forwardPE"},
     {"marketCap", "beta", "effectiveTaxRate", "trailingPE", "forwardPE"}}

\* info with the price keys p, the shares sh and the keys ab absent
InfoWith(p, sh, ab) ==
    [raises |-> FALSE, currentPrice |-> p[1], regularMarketPrice |-> p[2],
     sharesOutstanding |-> sh,
     marketCap |-> IF "marketCap" \in ab THEN None ELSE FullInfo.marketCap,
     beta |-> IF "beta" \in ab THEN None ELSE FullInfo.beta,
     effectiveTaxRate |->
         IF "effectiveTaxRate" \in ab THEN None ELSE FullInfo.effectiveTaxRate,
     trailingPE |-> IF "trailingPE" \in ab THEN None ELSE FullInfo.trailingPE,
     forwardPE |-> IF "forwardPE" \in ab THEN None ELSE FullInfo.forwardPE]

\* info: stock.info raises; or every price and shares value with all the
\* informational keys; or the full price and shares with keys absent
Infos ==
    { [raises |-> TRUE, currentPrice |-> None, regularMarketPrice |-> None,
       sharesOutstanding |-> None, marketCap |-> None, beta |-> None,
       effectiveTaxRate |-> None, trailingPE |-> None, forwardPE |-> None] }
    \cup
    { InfoWith(p, sh, {}) :
        p \in {<<None, None>>, <<F(0), None>>, <<F(50), None>>, <<None, F(45)>>},
        sh \in {None, F(0), F(200)} }
    \cup
    { InfoWith(p, F(200), ab) :
        p \in {<<None, None>>, <<F(50), None>>}, ab \in AbsentInfo }

\* the statements tried with every quote: complete, a zero operating cash
\* flow or net income, a missing revenue, a missing column
QuoteDefectSets ==
    { {}, {<<"zero", "operating_cash_flow", 2024>>},
      {<<"zero", "net_income", 2023>>}, {<<"nan", "revenue", 2022>>},
      {<<"nocol", "cf", 2021>>} }

\* the statements tried with the full quote: up to MaxDefects defects, with
\* and without a row "Free Cash Flow"
StatementDefectSets ==
    { ds \cup x : ds \in DefectSets(MaxDefects),
                  x \in {{}, {<<"norow", "free_cash_flow", 0>>}} }

Worlds ==
    (StatementDefectSets \X {FullFastInfo} \X {FullInfo})
    \cup (QuoteDefectSets \X FastInfos \X Infos)

-----------------------------------------------------------------------------
(* One call of scrape_company_row *)

ToolIdle ==
    /\ df = NoTable
    /\ aliases = <<>>
    /\ col_obj = NoCol
    /\ val = None
    /\ year_map = EmptyDict

LocalsIdle ==
    /\ pit = NoPit
    /\ inc_cols = EmptyDict
    /\ bs_cols = EmptyDict
    /\ cf_cols = EmptyDict
    /\ y_i = 0
    /\ out = EmptyDict
    /\ loc = NoLoc
    /\ annuals = NoneDict
    /\ row = NoneDict

\* main has not been called
NoMain ==
    [universe |-> <<>>, i |-> 0, ok |-> 0, skipped |-> 0, failed |-> 0,
     printed |-> <<>>]

NoCalls == [calls |-> <<>>, table |-> {}]

\* scrape_company_dcf_data has not been called
NoDcf == [raises |-> FALSE, data |-> <<>>, score |-> <<>>, status |-> ""]

MainIdle ==
    /\ dcf = NoDcf
    /\ csv = <<>>
    /\ yahoo = <<>>
    /\ main = NoMain
    /\ sb = NoCalls

PipelineIdle ==
    /\ inc = NoTable
    /\ bs = NoTable
    /\ cf = NoTable
    /\ fast_info = FullFastInfo
    /\ info = FullInfo
    /\ LocalsIdle

Init ==
    /\ pc = "fast_info"
    /\ \E w \in Worlds :
          /\ inc = StatementWith("inc", w[1])
          /\ bs = StatementWith("bs", w[1])
          /\ cf = StatementWith("cf", w[1])
          /\ fast_info = w[2]
          /\ info = w[3]
    /\ LocalsIdle
    /\ ToolIdle
    /\ MainIdle

Next ==
    \/ ReadFastInfo
    \/ ReadInfo
    \/ ExtractBegin
    \/ ExtractYear
    \/ ExtractReturn
    \/ Enrich

Spec == Init /\ [][Next]_vars

-----------------------------------------------------------------------------
(* load_universe *)

\* str.upper() of a ticker, a sequence of characters
TickerUpper(t) ==
    [i \in 1..Len(t) |-> CASE t[i] = "a" -> "A" [] t[i] = "b" -> "B" [] OTHER -> t[i]]

\* str.strip() of a ticker
RECURSIVE TickerStrip(_)
TickerStrip(t) ==
    IF t = <<>> THEN t
    ELSE IF Head(t) = " " THEN TickerStrip(Tail(t))
    ELSE IF t[Len(t)] = " " THEN TickerStrip(SubSeq(t, 1, Len(t) - 1))
    ELSE t

\* str.replace(".", "-")
TickerReplace(t) == [i \in 1..Len(t) |-> IF t[i] = "." THEN "-" ELSE t[i]]

\* line 89: t.strip().upper().replace(".", "-")
normalize_ticker(t) == TickerReplace(TickerUpper(TickerStrip(t)))

\* .drop_duplicates(subset=["ticker"]): the first row of a ticker stays
RECURSIVE DropDuplicates(_)
DropDuplicates(ts) ==
    IF ts = <<>> THEN ts
    ELSE LET init == DropDuplicates(SubSeq(ts, 1, Len(ts) - 1))
             last == ts[Len(ts)]
         IN  IF \E i \in 1..Len(init) : init[i] = last THEN init
             ELSE Append(init, last)

\* line 127: 1 <= len(ticker) <= 6
TickerLengthOk(t) == Len(t) >= 1 /\ Len(t) <= 6

\* lines 104-131, on the Symbol column c: [raised, rows]
load_universe(c) ==
    IF c = <<>> THEN [raised |-> TRUE, rows |-> <<>>]
    ELSE [raised |-> FALSE,
          rows |-> SelectSeq(DropDuplicates([i \in 1..Len(c) |->
                                                normalize_ticker(c[i])]),
                             TickerLengthOk)]

-----------------------------------------------------------------------------
(* main *)

\* print(...) of a line about ticker t
Printed(m, t, line) ==
    [m EXCEPT !.printed = Append(@, [ticker |-> t, line |-> line])]

\* lines 361-370
MainBegin ==
    /\ pc = "main"
    /\ LET u == load_universe(csv)
       IN  IF u.raised
           THEN pc' = "main_raised" /\ UNCHANGED main
           ELSE pc' = "for_rec" /\ main' = [NoMain EXCEPT !.universe = u.rows]
    /\ UNCHANGED <<dcf, tool_vars, world_vars, pit, extract_vars, row, csv, yahoo, sb>>

\* lines 372-379 and 264: the next record; scrape_company_row is called and
\* Yahoo serves the ticker, or an exception leaves the call
MainScrape ==
    /\ pc = "for_rec"
    /\ main.i < Len(main.universe)
    /\ main' = [main EXCEPT !.i = @ + 1]
    /\ LET w == yahoo[main.universe[main.i + 1]]
       IN  IF w.raises
           THEN pc' = "except" /\ UNCHANGED <<world_vars, pit, extract_vars, row>>
           ELSE /\ pc' = "fast_info"
                /\ inc' = StatementWith("inc", w.ds)
                /\ bs' = StatementWith("bs", w.ds)
                /\ cf' = StatementWith("cf", w.ds)
                /\ fast_info' = w.fast_info
                /\ info' = w.info
                /\ pit' = NoPit
                /\ inc_cols' = EmptyDict
                /\ bs_cols' = EmptyDict
                /\ cf_cols' = EmptyDict
                /\ y_i' = 0
                /\ out' = EmptyDict
                /\ loc' = NoLoc
                /\ annuals' = NoneDict
                /\ row' = NoneDict
    /\ UNCHANGED <<dcf, tool_vars, csv, yahoo, sb>>

\* lines 380-384
MainExcept ==
    /\ pc = "except"
    /\ main' = Printed([main EXCEPT !.failed = @ + 1], TickerArg, "Scrape error")
    /\ pc' = "for_rec"
    /\ UNCHANGED <<dcf, tool_vars, world_vars, pit, extract_vars, row, csv, yahoo, sb>>

\* a faulty variant of MainSkip: no `continue`, upsert_row(sb, row) is reached
MainSkipUpserts ==
    /\ pc = "done"
    /\ main.i > 0
    /\ row.isNone
    /\ main' = Printed([main EXCEPT !.skipped = @ + 1], TickerArg, "Skipped")
    /\ sb' = [sb EXCEPT !.calls = Append(@, [ticker |-> TickerArg, row |-> row])]
    /\ pc' = "for_rec"
    /\ UNCHANGED <<dcf, tool_vars, world_vars, pit, extract_vars, row, csv, yahoo>>

\* lines 386-390
MainSkip ==
    /\ pc = "done"
    /\ main.i > 0
    /\ row.isNone
    /\ main' = Printed([main EXCEPT !.skipped = @ + 1], TickerArg, "Skipped")
    /\ pc' = "for_rec"
    /\ UNCHANGED <<dcf, tool_vars, world_vars, pit, extract_vars, row, csv, yahoo, sb>>

\* lines 392-399 and 348-355; executed = FALSE: the upsert raises and
\* upsert_row returns False
MainUpsert ==
    /\ pc = "done"
    /\ main.i > 0
    /\ ~row.isNone
    /\ \E executed \in BOOLEAN :
          /\ sb' = [calls |-> Append(sb.calls, [ticker |-> row.d[<<"ticker", 0>>],
                                                row |-> row]),
                    table |-> IF executed
                              THEN sb.table \cup {row.d[<<"ticker", 0>>]}
                              ELSE sb.table]
          /\ main' = IF executed
                     THEN Printed([main EXCEPT !.ok = @ + 1], TickerArg, "Upserted")
                     ELSE Printed([main EXCEPT !.failed = @ + 1], TickerArg,
                                  "Upload failed")
    /\ pc' = "for_rec"
    /\ UNCHANGED <<dcf, tool_vars, world_vars, pit, extract_vars, row, csv, yahoo>>

\* lines 401-403
MainReturn ==
    /\ pc = "for_rec"
    /\ main.i = Len(main.universe)
    /\ pc' = "main_returned"
    /\ UNCHANGED <<dcf, tool_vars, world_vars, pit, extract_vars, row, main_vars>>

-----------------------------------------------------------------------------
(* One run of main *)

\* the Symbol cells of the CSV: "A", "a ", "B.B" and " "
RawTickers == {<<"A">>, <<"a", " ">>, <<"B", ".", "B">>, <<" ">>}

Csvs == UNION {[1..n -> RawTickers] : n \in 0..MaxCsvRows}

\* what Yahoo serves for a ticker: the fetch raises; complete data; a
\* revenue that is NaN; no shares outstanding
YahooData ==
    { [raises |-> TRUE, ds |-> {}, fast_info |-> FullFastInfo, info |-> FullInfo],
      [raises |-> FALSE, ds |-> {}, fast_info |-> FullFastInfo, info |-> FullInfo],
      [raises |-> FALSE, ds |-> {<<"nan", "revenue", 2022>>},
       fast_info |-> FullFastInfo, info |-> FullInfo],
      [raises |-> FALSE, ds |-> {},
       fast_info |-> [FullFastInfo EXCEPT !.shares = None],
       info |-> InfoWith(<<F(50), None>>, None, {})] }

Tickers == {normalize_ticker(t) : t \in RawTickers} \ {<<>>}

InitMain ==
    /\ pc = "main"
    /\ csv \in Csvs
    /\ yahoo \in [Tickers -> YahooData]
    /\ main = NoMain
    /\ sb = NoCalls
    /\ dcf = NoDcf
    /\ PipelineIdle
    /\ ToolIdle

NextMain ==
    \/ MainBegin
    \/ MainScrape
    \/ MainExcept
    \/ MainSkip
    \/ MainUpsert
    \/ MainReturn
    \/ ReadFastInfo
    \/ ReadInfo
    \/ ExtractBegin
    \/ ExtractYear
    \/ ExtractReturn
    \/ Enrich

SpecMain == InitMain /\ [][NextMain]_vars

-----------------------------------------------------------------------------
(* snp500_dcf.py: the values of the dict data *)

PyNone == [kind |-> "None", v |-> <<0, 1>>, xs |-> <<>>]

\* a float; float("nan") is a float as well
PyFloat(v) == [kind |-> "float", v |-> v, xs |-> <<>>]

PyNaN == [kind |-> "nan", v |-> <<0, 1>>, xs |-> <<>>]

PyList(xs) == [kind |-> "list", v |-> <<0, 1>>, xs |-> xs]

-----------------------------------------------------------------------------
(* snp500_dcf.py: calculate_data_quality_score *)

critical_fields ==
    <<"operating_cash_flow", "capital_expenditure", "free_cash_flow",
      "revenue", "total_debt", "beta", "shares_outstanding">>

\* a faulty variant of NotNoneCount: len(data[field])
ListLen(xs) == Len(xs)

\* len([x for x in data[field] if x is not None])
NotNoneCount(xs) == Cardinality({i \in 1..Len(xs) : xs[i] # PyNone})

\* lines 32-39: what one field adds to score
ScoreOfField(data, field) ==
    IF field \in DOMAIN data /\ data[field] # PyNone
    THEN IF data[field].kind = "list"
         THEN IF NotNoneCount(data[field].xs) >= 3 THEN 1 ELSE 0
         ELSE 1
    ELSE 0

\* lines 30-39: score after the first n fields
RECURSIVE ScoreUpTo(_, _)
ScoreUpTo(data, n) ==
    IF n = 0 THEN 0
    ELSE ScoreUpTo(data, n - 1) + ScoreOfField(data, critical_fields[n])

\* line 41: score / len(critical_fields)
calculate_data_quality_score(data) ==
    Frac(ScoreUpTo(data, Len(critical_fields)), Len(critical_fields))

\* a > b, of two floats
GreaterThan(a, b) == a[1] * b[2] > b[1] * a[2]

\* line 131: 'success' if data['data_quality_score'] > 0.5 else 'partial'
ScrapeStatus(score) == IF GreaterThan(score, <<1, 2>>) THEN "success" ELSE "partial"

\* lines 129-134
DcfScore ==
    /\ pc = "dcf_data"
    /\ ~dcf.raises
    /\ \E score \in {calculate_data_quality_score(dcf.data)} :
          dcf' = [dcf EXCEPT !.score = score, !.status = ScrapeStatus(score)]
    /\ pc' = "dcf_returned"
    /\ UNCHANGED <<tool_vars, world_vars, pit, extract_vars, row, main_vars>>

\* lines 136-143: an exception in the try body
DcfFailed ==
    /\ pc = "dcf_data"
    /\ dcf.raises
    /\ dcf' = [dcf EXCEPT !.status = "failed"]
    /\ pc' = "dcf_returned"
    /\ UNCHANGED <<tool_vars, world_vars, pit, extract_vars, row, main_vars>>

-----------------------------------------------------------------------------
(* The dicts scored *)

\* lists of at most n values: None, a number, NaN
RECURSIVE ListsUpTo(_)
ListsUpTo(n) ==
    IF n = 0 THEN {<<>>}
    ELSE ListsUpTo(n - 1)
         \cup {Append(xs, x) : xs \in {l \in ListsUpTo(n - 1) : Len(l) = n - 1},
                               x \in {PyNone, PyFloat(F(1)), PyNaN}}

\* "absent" stands for a key that is not in the dict
Absent == [kind |-> "absent", v |-> <<0, 1>>, xs |-> <<>>]

\* the dict with the values vs, the keys of Absent left out
DictOf(vs) == [f \in {g \in DOMAIN vs : vs[g] # Absent} |-> vs[f]]

\* data: any list, None or no key for the operating cash flow; a list of
\* three years, without or with a None, or no key, for the two other
\* arrays; a float, None or no key for each scalar
DcfData ==
    { DictOf([operating_cash_flow |-> a, capital_expenditure |-> b,
              free_cash_flow |-> c, revenue |-> r, total_debt |-> d,
              beta |-> e, shares_outstanding |-> sh]) :
        a \in {Absent, PyNone} \cup {PyList(xs) : xs \in ListsUpTo(MaxListLen)},
        b \in {Absent, PyList(<<PyFloat(F(1)), PyFloat(F(1)), PyFloat(F(1))>>)},
        c \in {Absent, PyList(<<PyFloat(F(1)), PyNone, PyFloat(F(1))>>)},
        r \in {Absent, PyNone, PyFloat(F(0))},
        d \in {Absent, PyNone, PyFloat(F(300))},
        e \in {PyNone, PyFloat(<<6, 5>>)},
        sh \in {PyNone, PyFloat(F(100))} }

InitDcf ==
    /\ pc = "dcf_data"
    /\ \/ dcf \in {[NoDcf EXCEPT !.data = d] : d \in DcfData}
       \/ dcf = [NoDcf EXCEPT !.raises = TRUE]
    /\ csv = <<>>
    /\ yahoo = <<>>
    /\ main = NoMain
    /\ sb = NoCalls
    /\ PipelineIdle
    /\ ToolIdle

NextDcf ==
    \/ DcfScore
    \/ DcfFailed

SpecDcf == InitDcf /\ [][NextDcf]_vars

-----------------------------------------------------------------------------
(* Calls of _get_row_value on bounded tables *)

\* "Total Revenue", "total revenue " and "Revenue"
RawLabels ==
    { <<C("total"), SP, C("revenue")>>,
      <<W("total"), SP, W("revenue"), SP>>,
      <<C("revenue")>> }

\* alias lists: the aliases of REV_ALIASES in any order, without repetition
AliasLists ==
    { s \in UNION {[1..n -> {REV_ALIASES[i] : i \in 1..Len(REV_ALIASES)}] :
                     n \in 1..MaxAliases} :
        \A i, j \in 1..Len(s) : i # j => s[i] # s[j] }

\* the cells of n rows and 2 columns: row r holds 10r+c in column c, but for
\* one cell of column 1 that may be NaN or text
ResolverData(n, defect) ==
    [r \in 1..n |-> [c \in 1..2 |->
        IF c = 1 /\ defect[1] = r THEN defect[2] ELSE Num(10 * r + c)]]

ResolverTables ==
    {NoTable} \cup
    { Table(idx, cols, ResolverData(Len(idx), defect)) :
        idx \in UNION {[1..n -> RawLabels] : n \in 0..MaxRows},
        cols \in { <<Ts(2024, 12), Ts(2023, 12)>>, <<Ts(2024, 12), Ts(2024, 12)>> },
        defect \in {<<0, NaN>>} \cup ((1..MaxRows) \X {NaN, Txt}) }

InitResolver ==
    /\ pc = "call_get_row_value"
    /\ df \in ResolverTables
    /\ aliases \in AliasLists
    /\ col_obj \in {Ts(2024, 12), Ts(2022, 12)}
    /\ val = None
    /\ year_map = EmptyDict
    /\ PipelineIdle
    /\ MainIdle

CallGetRowValue ==
    /\ pc = "call_get_row_value"
    /\ val' = GetRowValue(df, aliases, col_obj)
    /\ pc' = "returned_value"
    /\ UNCHANGED <<dcf, main_vars, df, aliases, col_obj, year_map, world_vars, pit, extract_vars, row>>

NextResolver == CallGetRowValue

SpecResolver == InitResolver /\ [][NextResolver]_vars

-----------------------------------------------------------------------------
(* Calls of _columns_by_year on bounded tables *)

\* Timestamps of two fiscal year ends in 2024, a date string, "TTM", a null
ColLabels == {Ts(2024, 12), Ts(2024, 6), Iso(2023, 12), Text(0), NaT}

MapperTables ==
    {NoTable} \cup
    { Table(idx, cols, [r \in 1..Len(idx) |-> [c \in 1..Len(cols) |-> Num(c)]]) :
        idx \in { <<>>, << <<C("total"), SP, C("revenue")>> >> },
        cols \in UNION {[1..n -> ColLabels] : n \in 0..MaxCols} }

InitMapper ==
    /\ pc = "call_columns_by_year"
    /\ df \in MapperTables
    /\ aliases = <<>>
    /\ col_obj = NoCol
    /\ val = None
    /\ year_map = EmptyDict
    /\ PipelineIdle
    /\ MainIdle

CallColumnsByYear ==
    /\ pc = "call_columns_by_year"
    /\ year_map' = ColumnsByYear(df)
    /\ pc' = "returned_map"
    /\ UNCHANGED <<dcf, main_vars, df, aliases, col_obj, val, world_vars, pit, extract_vars, row>>

NextMapper == CallColumnsByYear

SpecMapper == InitMapper /\ [][NextMapper]_vars

-----------------------------------------------------------------------------
(* The alias resolver's results, stated on the table *)

\* the normalised (trimmed, lower-cased) label of row r
NormLabel(t, r) == Lower(Strip(t.index[r]))

\* the places in the alias list whose alias is the label of some row
MatchingAliases(t, als) ==
    { i \in 1..Len(als) :
        \E r \in 1..Len(t.index) : NormLabel(t, r) = Lower(Strip(als[i])) }

Min(S) == CHOOSE x \in S : \A z \in S : x <= z

Max(S) == CHOOSE x \in S : \A z \in S : x >= z

\* the rows labelled by the first listed alias that matches
RowsOfFirstAlias(t, als) ==
    { r \in 1..Len(t.index) :
        NormLabel(t, r) = Lower(Strip(als[Min(MatchingAliases(t, als))])) }

\* the lookup of row r in column col gives one cell
OneCell(t, r, col) ==
    /\ Cardinality({i \in 1..Len(t.index) : t.index[i] = t.index[r]}) = 1
    /\ Cardinality({j \in 1..Len(t.columns) : t.columns[j] = col}) = 1

\* the float of the cell of row r in column col; None when the cell is
\* missing, is no number, or the lookup does not give one cell
CellOf(t, r, col) ==
    IF ~OneCell(t, r, col) THEN None
    ELSE LET j == CHOOSE j \in 1..Len(t.columns) : t.columns[j] = col
         IN  IF t.data[r][j].kind = "num" THEN F(t.data[r][j].v) ELSE None

Perms(n) == { p \in [1..n -> 1..n] : \A i, j \in 1..n : p[i] = p[j] => i = j }

\* the table with its rows in the order p
Permute(t, p) ==
    [t EXCEPT !.index = [r \in 1..Len(t.index) |-> t.index[p[r]]],
              !.data  = [r \in 1..Len(t.index) |-> t.data[p[r]]]]

TwoAliasesMatch ==
    /\ pc = "returned_value"
    /\ ~df.missing /\ ~Empty(df)
    /\ Cardinality(MatchingAliases(df, aliases)) >= 2

DistinctNormLabels(t) ==
    \A r, q \in 1..Len(t.index) : NormLabel(t, r) = NormLabel(t, q) => r = q

\* C3 as stated: when two or more aliases match, the value returned is the
\* cell of the alias listed first, whatever the order of the rows: every
\* reordering of the rows gives the same value, which is the cell of every
\* row the first listed matching alias labels.
C3_AsStated ==
    TwoAliasesMatch =>
        /\ \A r \in RowsOfFirstAlias(df, aliases) : val = CellOf(df, r, col_obj)
        /\ \A p \in Perms(Len(df.index)) :
              GetRowValue(Permute(df, p), aliases, col_obj) = val

\* C3 amended: when two or more aliases match, the value returned is the cell
\* of the LAST row (in table order) whose trimmed, lower-cased label is the
\* first listed alias that matches; it is independent of the order of the
\* rows when no two rows have the same trimmed, lower-cased label.
C3_FirstAliasLastRow ==
    TwoAliasesMatch =>
        /\ val = CellOf(df, Max(RowsOfFirstAlias(df, aliases)), col_obj)
        /\ DistinctNormLabels(df) =>
              \A p \in Perms(Len(df.index)) :
                  GetRowValue(Permute(df, p), aliases, col_obj) = val

\* two aliases match rows with different values and the first listed one,
\* which labels the later row of the table, gave the value
C3_Witness ==
    /\ TwoAliasesMatch
    /\ DistinctNormLabels(df)
    /\ val # None
    /\ \E r \in 1..Len(df.index) :
          /\ r < Max(RowsOfFirstAlias(df, aliases))
          /\ NormLabel(df, r) = Lower(Strip(aliases[2]))
          /\ CellOf(df, r, col_obj) \notin {None, val}

\* C4: _get_row_value never raises and returns None when the table is missing
\* or empty, when no alias matches a row label, when the cell of the first
\* matching alias is missing (even if a later alias has a value) and when the
\* cell lookup raises.
C4_AbsentNeverRaises ==
    pc = "returned_value" =>
        /\ val # Raised
        /\ (df.missing \/ Empty(df)) => val = None
        /\ (~df.missing /\ MatchingAliases(df, aliases) = {}) => val = None
        /\ (~df.missing /\ ~Empty(df) /\ MatchingAliases(df, aliases) # {}) =>
              LET r == Max(RowsOfFirstAlias(df, aliases))
                  cs == {j \in 1..Len(df.columns) : df.columns[j] = col_obj}
              IN  /\ (\E j \in cs : df.data[r][j].kind = "nan") => val = None
                  /\ ~OneCell(df, r, col_obj) => val = None
                  /\ (\E j \in cs : df.data[r][j].kind = "str") => val = None

\* the first matching alias has a missing cell, a later alias matches a row
\* with a value, and None was returned
C4_Witness ==
    /\ TwoAliasesMatch
    /\ val = None
    /\ LET r == Max(RowsOfFirstAlias(df, aliases))
       IN  /\ OneCell(df, r, col_obj)
           /\ \E j \in 1..Len(df.columns) :
                 df.columns[j] = col_obj /\ df.data[r][j].kind = "nan"
    /\ \E q \in 1..Len(df.index) :
          /\ NormLabel(df, q) = Lower(Strip(aliases[Max(MatchingAliases(df, aliases))]))
          /\ CellOf(df, q, col_obj) # None

-----------------------------------------------------------------------------
(* The column mapper's result, stated on the table *)

\* the years some column label of the table parses to
YearsOf(t) ==
    { ParseYear(t.columns[j])[1] :
        j \in {i \in 1..Len(t.columns) : ParseYear(t.columns[i]) # <<>>} }

\* the last column, in the table's order, whose label parses to year y
LastColumnOf(t, y) ==
    t.columns[Max({j \in 1..Len(t.columns) : ParseYear(t.columns[j]) = <<y>>})]

\* C5: _columns_by_year returns exactly the mapping from each year y to the
\* last column, in the table's order, whose label parses as a date in year y;
\* a column that does not parse adds no entry, and the mapping is empty when
\* no column parses or the table is missing or empty.
C5_LastColumnOfYear ==
    pc = "returned_map" =>
        IF df.missing \/ Empty(df)
        THEN DOMAIN year_map = {}
        ELSE /\ DOMAIN year_map = YearsOf(df)
             /\ \A y \in YearsOf(df) : year_map[y] = LastColumnOf(df, y)

\* two columns of one year, the later one mapped, and a column that does not
\* parse left out
C5_Witness ==
    /\ pc = "returned_map"
    /\ \E i, j, k \in 1..Len(df.columns) :
          /\ i < j
          /\ ParseYear(df.columns[i]) = ParseYear(df.columns[j])
          /\ ParseYear(df.columns[k]) = <<>>
          /\ df.columns[i] # df.columns[j]
          /\ ParseYear(df.columns[j]) # <<>>
          /\ ParseYear(df.columns[j])[1] \in DOMAIN year_map
          /\ year_map[ParseYear(df.columns[j])[1]] = df.columns[j]

-----------------------------------------------------------------------------
(* The annual extractor's results *)

BaseFields ==
    {"revenue", "operating_income", "net_income", "operating_cash_flow",
     "capital_expenditure", "free_cash_flow", "total_debt",
     "cash_and_equivalents", "total_equity", "gross_profit", "current_assets",
     "current_liabilities"}

DerivedFields ==
    {"gross_margin", "operating_margin", "net_margin", "fcf_margin",
     "ofc_margin", "debt_to_equity", "current_ratio"}

TargetYears == {YEARS[i] : i \in 1..Len(YEARS)}

\* extract_annuals has returned
Returned == pc \in {"annuals_returned", "done"}

\* C1: extract_annuals returns None or a mapping that holds, for every year
\* of YEARS, all 12 base keys and all 7 derived keys with a value that is
\* not None; a rejection carries none of the fields accumulated before it.
C1_CompleteOrNone ==
    Returned =>
        IF annuals.isNone
        THEN DOMAIN annuals.d = {}
        ELSE \A y \in TargetYears, f \in BaseFields \cup DerivedFields :
                /\ <<f, y>> \in DOMAIN annuals.d
                /\ annuals.d[<<f, y>>] # None

\* a later year was rejected after the fields of earlier years were added
C1_Witness ==
    /\ pc = "annuals_returned"
    /\ annuals.isNone
    /\ y_i >= 2
    /\ \A f \in BaseFields \cup DerivedFields : <<f, 2024>> \in DOMAIN out

\* statement t has no column whose label parses as a date of year y
NoColumnOfYear(t, y) ==
    t.missing \/ \A j \in 1..Len(t.columns) : ParseYear(t.columns[j]) # <<y>>

\* C2: when one of the three statements has no column of some year of YEARS,
\* extract_annuals rejects the entity, wherever that year sits in YEARS and
\* however complete the other years are.
C2_MissingYearRejects ==
    Returned =>
        ((\E y \in TargetYears :
             NoColumnOfYear(inc, y) \/ NoColumnOfYear(bs, y) \/ NoColumnOfYear(cf, y))
         => annuals.isNone)

\* only the last year of YEARS lacks a column, in the cash-flow statement
\* alone; the three years before it were complete, and None was returned
C2_Witness ==
    /\ pc = "annuals_returned"
    /\ annuals.isNone
    /\ y_i = Len(YEARS)
    /\ NoColumnOfYear(cf, YEARS[Len(YEARS)])
    /\ ~NoColumnOfYear(inc, YEARS[Len(YEARS)])
    /\ ~NoColumnOfYear(bs, YEARS[Len(YEARS)])
    /\ \A y \in TargetYears \ {YEARS[Len(YEARS)]} : <<"revenue", y>> \in DOMAIN out

\* the last iteration of the loop resolved its base fields
BaseResolved == loc.at \in {"missing_base", "missing_derived", "updated"}

\* C6: in each iteration, a free cash flow resolved from the cash-flow
\* statement is used unchanged; when it is absent and operating cash flow and
\* capital expenditure are present, free cash flow is their SUM; when it is
\* absent and one of the two is absent, it stays absent and the entity is
\* rejected.
C6_FreeCashFlow ==
    BaseResolved =>
        LET fcf  == GetRowValue(cf, FCF_ALIASES, loc.col_c)
            ocf  == GetRowValue(cf, OCF_ALIASES, loc.col_c)
            capx == GetRowValue(cf, CAPEX_ALIASES, loc.col_c)
            used == loc.base.free_cash_flow
        IN  /\ fcf # None => used = fcf
            /\ (fcf = None /\ ocf # None /\ capx # None) =>
                  /\ used # None
                  /\ used[1] * ocf[2] * capx[2]
                        = (ocf[1] * capx[2] + capx[1] * ocf[2]) * used[2]
            /\ (fcf = None /\ (ocf = None \/ capx = None)) =>
                  /\ used = None
                  /\ Returned /\ annuals.isNone
            /\ loc.at = "updated" => out[<<"free_cash_flow", loc.y>>] = used

\* no row "Free Cash Flow"; 100 and -20 gave the free cash flow 80 of 2024
C6_Witness ==
    /\ loc.at = "updated"
    /\ loc.y = 2024
    /\ GetRowValue(cf, FCF_ALIASES, loc.col_c) = None
    /\ loc.base.operating_cash_flow = F(100)
    /\ loc.base.capital_expenditure = F(-20)
    /\ out[<<"free_cash_flow", 2024>>] = F(80)

\* the last iteration of the loop computed its derived ratios
DerivedComputed == loc.at \in {"missing_derived", "updated"}

\* q is the float n / d
IsQuotient(q, n, d) ==
    /\ q \notin {None, Raised}
    /\ q[1] * n[2] * d[1] = n[1] * d[2] * q[2]

\* C7 as stated: in a year whose 12 base fields are present and whose
\* revenue, total equity and current liabilities are not zero, each of the
\* seven ratios is present and is numerator / denominator, also for a zero
\* numerator, and the year is not rejected for a missing derived field.
C7_AsStated ==
    (/\ DerivedComputed
     /\ loc.base.revenue[1] # 0
     /\ loc.base.total_equity[1] # 0
     /\ loc.base.current_liabilities[1] # 0) =>
        LET b == loc.base
            d == loc.derived
        IN  /\ loc.at = "updated"
            /\ IsQuotient(d.gross_margin, b.gross_profit, b.revenue)
            /\ IsQuotient(d.operating_margin, b.operating_income, b.revenue)
            /\ IsQuotient(d.net_margin, b.net_income, b.revenue)
            /\ IsQuotient(d.fcf_margin, b.free_cash_flow, b.revenue)
            /\ IsQuotient(d.ofc_margin, b.operating_cash_flow, b.revenue)
            /\ IsQuotient(d.debt_to_equity, b.total_debt, b.total_equity)
            /\ IsQuotient(d.current_ratio, b.current_assets, b.current_liabilities)

\* C8: in a year in which revenue, total equity or current liabilities is
\* zero, the ratios that divide by it are None (nothing is raised), and
\* extract_annuals rejects the entity.
C8_DivisionGuard ==
    DerivedComputed =>
        LET b == loc.base
            d == loc.derived
        IN  /\ \A k \in DOMAIN d : d[k] # Raised
            /\ b.revenue[1] = 0 =>
                  /\ d.gross_margin = None /\ d.operating_margin = None
                  /\ d.net_margin = None /\ d.fcf_margin = None
                  /\ d.ofc_margin = None
            /\ b.total_equity[1] = 0 => d.debt_to_equity = None
            /\ b.current_liabilities[1] = 0 => d.current_ratio = None
            /\ (b.revenue[1] = 0 \/ b.total_equity[1] = 0
                    \/ b.current_liabilities[1] = 0) =>
                  /\ loc.at = "missing_derived"
                  /\ Returned /\ annuals.isNone

\* current liabilities of 0 in a later year: no current ratio, and None
\* returned
C8_Witness ==
    /\ pc = "annuals_returned"
    /\ loc.at = "missing_derived"
    /\ loc.y = 2022
    /\ loc.base.current_liabilities = F(0)
    /\ loc.base.current_assets # F(0)
    /\ loc.derived.current_ratio = None
    /\ annuals.isNone

-----------------------------------------------------------------------------
(* The results of scrape_company_row *)

\* C9: when shares outstanding is absent or zero the entity is rejected
\* whatever the other fields are; otherwise, for a complete AnnualRecord,
\* eps_y is net_income_y / shares_outstanding for every year of YEARS, with
\* the one shares-outstanding value.
C9_Eps ==
    pc = "done" =>
        IF pit.shares_out = None \/ pit.shares_out[1] = 0
        THEN row.isNone
        ELSE ~annuals.isNone =>
                \A y \in TargetYears :
                    /\ <<"eps", y>> \in DOMAIN annuals.d
                    /\ IsQuotient(annuals.d[<<"eps", y>>],
                                  annuals.d[<<"net_income", y>>], pit.shares_out)
                    /\ ~row.isNone => row.d[<<"eps", y>>] = annuals.d[<<"eps", y>>]

\* net income 500 of 2024 and 100 shares gave the eps 5.0 in the row
C9_Witness ==
    /\ pc = "done"
    /\ ~row.isNone
    /\ row.d[<<"shares_outstanding", 0>>] = F(100)
    /\ row.d[<<"net_income", 2024>>] = F(500)
    /\ row.d[<<"eps", 2024>>] = F(5)

InformationalKeys ==
    {<<f, 0>> : f \in {"p_pcf", "current_price", "market_cap", "beta",
                       "tax_rate", "pe_trailing", "pe_forward"}}

\* C10: whether scrape_company_row accepts depends only on the AnnualRecord
\* and on shares outstanding, never on p_pcf, current price, market cap,
\* beta, tax rate or the P/Es; p_pcf is computed only if current price,
\* shares outstanding and the operating cash flow of the most recent year of
\* YEARS are present and operating cash flow per share is not zero, and is
\* then current price / (that operating cash flow / shares outstanding).
C10_InformationalFields ==
    pc = "done" =>
        /\ row.isNone <=>
              (annuals.isNone \/ pit.shares_out = None \/ pit.shares_out[1] = 0)
        /\ ~row.isNone =>
              LET p   == row.d[<<"p_pcf", 0>>]
                  ocf == row.d[<<"operating_cash_flow", Max(TargetYears)>>]
              IN  p # None =>
                     /\ pit.current_price # None
                     /\ ocf[1] # 0
                     /\ p # Raised
                     /\ p[1] * ocf[1] * pit.shares_out[2] * pit.current_price[2]
                           = pit.current_price[1] * pit.shares_out[1] * ocf[2] * p[2]

\* a record accepted with every informational field absent
C10_Witness ==
    /\ pc = "done"
    /\ ~row.isNone
    /\ \A k \in InformationalKeys : row.d[k] = None

\* a record accepted with p_pcf computed: 50 / (100 / 100)
C10_WitnessComputed ==
    /\ pc = "done"
    /\ ~row.isNone
    /\ row.d[<<"p_pcf", 0>>] = F(50)

-----------------------------------------------------------------------------
(* The completeness gate *)

\* the keys of the docstring's gate: base, derived and eps of every year
GateKeys ==
    {<<f, y>> : f \in BaseFields \cup DerivedFields \cup {"eps"},
                y \in TargetYears}

\* C11: a record that scrape_company_row returns has a value that is not
\* None for each of the 20 required keys (12 base fields, 7 derived ratios,
\* eps) of every year of YEARS, and these are the keys the code requires; a
\* candidate that lacks one of them for some year (extract_annuals gave
\* None, or eps could not be computed) is rejected: None is returned.
C11_CompletenessGate ==
    /\ RequiredKeys = GateKeys
    /\ Cardinality(RequiredFields) = 20
    /\ Cardinality(BaseFields) = 12 /\ Cardinality(DerivedFields) = 7
    /\ pc = "done" =>
          /\ ~row.isNone =>
                \A k \in GateKeys :
                    /\ k \in DOMAIN row.d
                    /\ row.d[k] # None
                    /\ row.d[k] # Raised
          /\ (annuals.isNone \/ \E k \in GateKeys : GetVal(annuals.d, k) = None)
                => row.isNone

\* an accepted record: all 80 keys of the gate are in it
C11_Witness ==
    /\ pc = "done"
    /\ ~row.isNone
    /\ Cardinality(GateKeys \cap DOMAIN row.d) = 80

\* a complete AnnualRecord whose candidate lacks eps (no shares outstanding)
\* was rejected
C11_WitnessRejected ==
    /\ pc = "done"
    /\ row.isNone
    /\ ~annuals.isNone
    /\ \A y \in TargetYears : <<"eps", y>> \notin DOMAIN annuals.d

-----------------------------------------------------------------------------
(* The driver loop *)

\* the tickers main printed `line` about
TickersPrinted(line) ==
    {main.printed[j].ticker : j \in {k \in 1..Len(main.printed) :
                                        main.printed[k].line = line}}

\* the tickers upsert_row was called with
TickersUpserted == {sb.calls[j].ticker : j \in 1..Len(sb.calls)}

\* the iteration at hand ends in a rejection or in an exception
RejectedOrRaised == main.i > 0 /\ (pc = "except" \/ (pc = "done" /\ row.isNone))

C12_NoUpsertOfRejected ==
    /\ \A j \in 1..Len(sb.calls) :
          /\ ~sb.calls[j].row.isNone
          /\ \A k \in GateKeys : GetVal(sb.calls[j].row.d, k) # None
          /\ sb.calls[j].row.d[<<"ticker", 0>>] = sb.calls[j].ticker
    /\ \A j, k \in 1..Len(sb.calls) : sb.calls[j].ticker = sb.calls[k].ticker => j = k
    /\ (TickersPrinted("Scrape error") \cup TickersPrinted("Skipped"))
           \cap TickersUpserted = {}
    /\ RejectedOrRaised => TickerArg \notin TickersUpserted
    /\ pc = "main_returned" =>
          /\ Len(main.printed) = Len(main.universe)
          /\ \A j \in 1..Len(main.universe) :
                main.printed[j].ticker = main.universe[j]
          /\ main.ok + main.skipped + main.failed = Len(main.universe)

C12_GoesOn ==
    RejectedOrRaised =>
        /\ sb' = sb
        /\ pc' = "for_rec"
        /\ main'.i = main.i
        /\ main'.universe = main.universe

\* C12: in a run of main, upsert_row is never called for a ticker whose
\* scrape_company_row returned None or raised, and after such a ticker the
\* loop is back at its head with the records that remain; upsert_row is
\* called at most once per ticker, and only with an accepted record; when
\* main returns it has printed one line about every ticker of the universe.
C12_RejectionTerminal == []C12_NoUpsertOfRejected /\ [][C12_GoesOn]_vars

\* main returned after two tickers: the first was skipped, the second
\* upserted
C12_Witness ==
    /\ pc = "main_returned"
    /\ Len(main.universe) = 2
    /\ main.printed[1].line = "Skipped"
    /\ main.printed[2].line = "Upserted"
    /\ Len(sb.calls) = 1
    /\ sb.calls[1].ticker = main.universe[2]

\* main returned after a scrape that raised and a duplicate row of the CSV
\* that was dropped
C12_WitnessRaised ==
    /\ pc = "main_returned"
    /\ Len(csv) = 2
    /\ Len(main.universe) = 1
    /\ main.printed[1].line = "Scrape error"
    /\ sb.calls = <<>>

-----------------------------------------------------------------------------
(* The quality scorer *)

CriticalFields ==
    {"operating_cash_flow", "capital_expenditure", "free_cash_flow", "revenue",
     "total_debt", "beta", "shares_outstanding"}

\* the field is in data with a value that is not None and, when the value is
\* a list, with three or more elements that are not None
PresentIn(data, f) ==
    /\ f \in DOMAIN data
    /\ data[f].kind # "None"
    /\ data[f].kind = "list" =>
          \E i, j, k \in 1..Len(data[f].xs) :
              /\ i < j /\ j < k
              /\ data[f].xs[i].kind # "None"
              /\ data[f].xs[j].kind # "None"
              /\ data[f].xs[k].kind # "None"

PresentCount == Cardinality({f \in CriticalFields : PresentIn(dcf.data, f)})

\* C13: calculate_data_quality_score returns (number of critical fields
\* present) / 7 over the seven critical fields, a scalar being present when
\* it is not None and a list when three or more of its values are not None;
\* the status is "success" when the score is above 0.5, which is when four
\* or more fields are present, and "partial" otherwise.
C13_QualityScore ==
    (pc = "dcf_returned" /\ ~dcf.raises) =>
        /\ dcf.score[1] * 7 = PresentCount * dcf.score[2]
        /\ dcf.score[2] > 0
        /\ dcf.status = "success" <=> 2 * dcf.score[1] > dcf.score[2]
        /\ dcf.status = "success" <=> PresentCount >= 4
        /\ dcf.status = "partial" <=> PresentCount < 4

\* exactly 4 of the 7 fields present, one of them a list with three values
\* that are not None: score 4/7, "success"
C13_Witness ==
    /\ pc = "dcf_returned"
    /\ PresentCount = 4
    /\ PresentIn(dcf.data, "operating_cash_flow")
    /\ dcf.score = <<4, 7>>
    /\ dcf.status = "success"

\* a list of three values with a None in it is not present: 3 of 7, "partial"
C13_WitnessPartial ==
    /\ pc = "dcf_returned"
    /\ "free_cash_flow" \in DOMAIN dcf.data
    /\ ~PresentIn(dcf.data, "free_cash_flow")
    /\ dcf.score = <<3, 7>>
    /\ dcf.status = "partial"

-----------------------------------------------------------------------------
(* The reasons of a rejection *)

\* why scrape_company_row rejected: the `return None` that was taken
Cause ==
    CASE loc.at = "missing_statement" -> "missing_year_columns"
      [] loc.at = "missing_base"      -> "missing_base_field"
      [] loc.at = "missing_derived"   -> "missing_derived_field"
      [] OTHER                        -> "missing_shares_outstanding"

\* the reason code that the returned value v carries, "" when it has none
ReasonCarried(v) == IF "reason" \in DOMAIN v THEN v.reason ELSE ""

\* C14: a rejection that scrape_company_row returns carries the reason code
\* of its cause: missing_year_columns, missing_base_field,
\* missing_derived_field or missing_shares_outstanding.
C14_AsStated ==
    (pc = "done" /\ row.isNone) => ReasonCarried(row) = Cause

\* whatever the cause, the value returned for a rejection is the one None
C14_OneNone ==
    (pc = "done" /\ row.isNone) => row = NoneDict

\* a rejection for a missing year column
C14_RejectedYearColumns ==
    pc = "done" /\ row.isNone /\ Cause = "missing_year_columns"

\* a rejection for a missing derived field
C14_RejectedDerived ==
    pc = "done" /\ row.isNone /\ Cause = "missing_derived_field"

=============================================================================
